---------------------------- MODULE Spec2Model ----------------------------
(***************************************************************************)
(* A model of rend-vk's device memory allocator (src/src/buffer.rs) and of *)
(* the renderer's frame loop and texture upload bookkeeping                *)
(* (src/src/renderer.rs).                                                  *)
(*                                                                         *)
(* Byte offsets are plain naturals.  A DeviceSlice's addr is kept relative *)
(* to the mapped base address, so addr and offset coincide, as they do in  *)
(* the source (offset = addr - buffer.addr, buffer.rs:291-292, 306).       *)
(***************************************************************************)
EXTENDS Integers, Sequences, FiniteSets, Bags, TLC

(***************************************************************************)
(* Bounds of the model.                                                    *)
(***************************************************************************)
\* DeviceBuffer.size of the modelled region, in bytes.
BufferSize == 8
\* Largest size a caller asks alloc for, in bytes.
MaxReq == 9
\* Largest number of slices held by the allocator's direct client at once.
MaxLive == 4
\* Longest sequence of alloc and free calls the direct client makes.
MaxCalls == 10
\* Width, in bits, u64 arithmetic is computed on.  Results agree with the
\* 64-bit ones as long as every operand stays below 2^(WordBits - 1), which
\* the other bounds ensure for every size but the largest a caller can ask
\* for, 2^WordBits - 1 (u64::MAX).
WordBits == 12

\* DeviceBuffer.size of the renderer's general region, in bytes (64 MiB in
\* make_renderer, scaled down): room for the test triangle and 8 bytes more.
GeneralSize == 56
\* Largest staging_size gen_texture is called with, in bytes.
MaxStaging == 1
\* Number of textures the client generates (beside the default texture).
MaxTextures == 1
\* Longest optimal_transition_queue the client builds up between two frames.
MaxQueued == 1
\* Number of render() calls followed.
MaxFrames == 6
\* pipeline.total_stages(): the number of stages pipeline.json configures.
TotalStages == 2
\* Number of bits of mesh_buffer_ids (1024 in make_renderer, scaled down).
MeshIds == 2
\* Largest size, in bytes, gen_mesh is asked for one attribute buffer.
MaxMeshAttrib == 1
\* Number of gen_mesh and free_mesh calls followed.
MaxMeshCalls == 3
\* TaskKind::MAX_LEN: the number of batches of batches_by_task_type.
TaskKinds == 2
\* Largest number of tasks the client adds between two frames.
MaxTasks == 2
\* Number of render() calls, and of gen_mesh and free_mesh calls, followed
\* when the client uses every operation.
MaxClientFrames == 2
MaxClientMeshCalls == 1

\* DeviceBuffer.alignment, a power of two reported by the device.
Alignment == 2
\* size_of_val(&elements) in make_test_triangle: the size of a slice reference.
TriangleAttribBytes == 16

VARIABLES
    overflow_checks, \* build profile: "checked" when integer overflow panics,
                     \* "unchecked" when it wraps, "unknown" until it matters
    buffer,     \* InnerDeviceAllocator.buffer: [size, alignment]
    ranges,     \* InnerDeviceAllocator.ranges, the free list
    fatal,      \* "none", or the panic that ended the program
    live,       \* bag of slices returned by alloc to the direct client, not yet freed
    lastOp,     \* the last allocator call: request and outcome
    trip,       \* progress of an alloc-then-free round trip on a fresh region
    calls,      \* number of allocator calls the direct client has made
    textures_by_id,     \* Renderer.textures_by_id: id + 1 -> [staging, requested],
                        \* requested: gen_texture was given a staging_size > 0
    optimal_transition_queue,       \* Renderer.optimal_transition_queue
    ongoing_optimal_transitions,    \* Renderer.ongoing_optimal_transitions
    current_frame,      \* Renderer.current_frame
    pc,                 \* where the render() call in progress stands
    stage_index,        \* the stage process_stages is at
    current_timeline_counter,   \* process_stages' local of that name: the
                        \* counter value it read, None where it has read none
    timeline,           \* counter of pass_timeline_semaphore
    fence,              \* draw_commands_reuse_fence is signaled
    gpu_queue,          \* work submitted to present_queue, not yet executed
    gpu_done,           \* number of command buffers the GPU has finished
    signaled,           \* timeline values the GPU has signaled
    freed,              \* per texture, the number of free calls on its staging
    recorded,           \* per texture, the last frame whose command buffer
                        \* recorded its transition (-1: none)
    mesh_buffer_ids,    \* Renderer.mesh_buffer_ids: the ids whose bit is set
    mesh_buffers_by_id, \* Renderer.mesh_buffers_by_id: id -> the four slices
    last_mesh,          \* the last gen_mesh or free_mesh call and its id
    mesh_calls,         \* number of gen_mesh and free_mesh calls made
    batches_by_task_type,   \* Renderer.batches_by_task_type: kind + 1 -> tasks
    released            \* per device memory region, the number of times its
                        \* buffer and memory were destroyed

alloc_vars == <<overflow_checks, buffer, ranges, fatal>>
client_vars == <<live, lastOp, trip, calls>>
texture_vars == <<textures_by_id, optimal_transition_queue, ongoing_optimal_transitions,
                  freed, recorded>>
frame_vars == <<current_frame, pc, stage_index, current_timeline_counter>>
gpu_vars == <<timeline, fence, gpu_queue, gpu_done, signaled>>
mesh_vars == <<mesh_buffer_ids, mesh_buffers_by_id, last_mesh, mesh_calls>>
table_vars == <<mesh_vars, batches_by_task_type, released>>
render_vars == <<texture_vars, frame_vars, gpu_vars, table_vars>>

vars == <<alloc_vars, client_vars, render_vars>>

(***************************************************************************)
(* Range and sequence helpers.                                             *)
(***************************************************************************)
Range(s, e) == [start |-> s, end |-> e]

Word == 2 ^ WordBits

\* Range::size, self.end - self.start on u64 with overflow checks off
RangeSize(r) == (r.end - r.start) % Word

\* Vec::remove(i), 1-based
Remove(s, i) == [k \in 1..(Len(s) - 1) |-> IF k < i THEN s[k] ELSE s[k + 1]]

\* Vec::insert(i, x), 1-based: x ends up at position i
InsertAt(s, i, x) ==
    [k \in 1..(Len(s) + 1) |-> IF k < i THEN s[k] ELSE IF k = i THEN x ELSE s[k - 1]]

RECURSIVE SumSizes(_, _)
SumSizes(s, i) ==
    IF i > Len(s) THEN 0 ELSE (RangeSize(s[i]) + SumSizes(s, i + 1)) % Word

\* An available() that reports the largest free range instead of the total
RECURSIVE LargestSize(_, _)
LargestSize(s, i) ==
    IF i > Len(s) THEN 0
    ELSE LET rest == LargestSize(s, i + 1)
         IN  IF RangeSize(s[i]) > rest THEN RangeSize(s[i]) ELSE rest

available_largest(rs) == LargestSize(rs, 1)

\* InnerDeviceAllocator::available
available(rs) == SumSizes(rs, 1)

RECURSIVE BitAnd(_, _, _)
BitAnd(x, y, n) ==
    IF n = 0 THEN 0
    ELSE (x % 2) * (y % 2) + 2 * BitAnd(x \div 2, y \div 2, n - 1)

\* next_size handing the size back as it was asked for
next_size_unrounded(base, mul) == base

\* DeviceBuffer::next_size: mask = -(mul as i64) as u64; (base + (mul - 1)) & mask
next_size(base, mul) ==
    LET mask == (Word - mul) % Word
    IN  BitAnd((base + (mul - 1)) % Word, mask, WordBits)

\* InnerDeviceAllocator::wrap
wrap(size) == << Range(0, size) >>

(***************************************************************************)
(* InnerDeviceAllocator::alloc.  The result is the outcome of the call     *)
(* ("some", "none", "panic": the out-of-bounds index at line 286, or the   *)
(* subtraction of Range::size overflowing in a build that checks it, or    *)
(* "ub": addr.offset at line 291 leaves the mapped allocation, after which *)
(* the program's behaviour is undefined and is not followed further) with  *)
(* the free list the call leaves behind.  overflowed tells whether the     *)
(* call computed the size of a range whose end is below its start, the     *)
(* place, beside the sum of next_size leaving u64, where the build profile  *)
(* decides what happens.                                                   *)
(***************************************************************************)
RECURSIVE AllocScan(_, _, _, _, _, _)
AllocScan(buf, rs, size, i, checks, met) ==
    IF i > Len(rs) THEN [kind |-> "none", ranges |-> rs, overflowed |-> met]
    ELSE IF rs[i].end < rs[i].start /\ checks = "checked"
    THEN [kind |-> "panic", ranges |-> rs, overflowed |-> TRUE]
    ELSE IF RangeSize(rs[i]) < size
    THEN AllocScan(buf, rs, size, i + 1, checks, met \/ rs[i].end < rs[i].start)
    ELSE LET old_start == rs[i].start
             new_start == old_start + size
             taken     == IF new_start = rs[i].end THEN Remove(rs, i) ELSE rs
             over      == met \/ rs[i].end < rs[i].start
         IN  IF i > Len(taken)
             THEN [kind |-> "panic", ranges |-> taken, overflowed |-> over]
             ELSE IF old_start > buf.size
             THEN [kind |-> "ub", ranges |-> [taken EXCEPT ![i].start = new_start],
                   overflowed |-> over]
             ELSE [kind   |-> "some",
                   ranges |-> [taken EXCEPT ![i].start = new_start],
                   slice  |-> [offset |-> old_start, size |-> size],
                   overflowed |-> over]

\* The sum at the head of next_size, base + (mul - 1), leaves u64
RoundingOverflows(base, mul) == base + (mul - 1) >= Word

alloc(buf, rs, size, checks) ==
    IF RoundingOverflows(size, buf.alignment) /\ checks = "checked"
    THEN [kind |-> "panic", ranges |-> rs, overflowed |-> TRUE]
    ELSE AllocScan(buf, rs, next_size(size, buf.alignment), 1, checks,
                   RoundingOverflows(size, buf.alignment))

\* The build profiles a run that has shown `known` so far may be of
Profiles(known) == IF known = "unknown" THEN {"checked", "unchecked"} ELSE {known}

(***************************************************************************)
(* InnerDeviceAllocator::free.                                             *)
(***************************************************************************)
RECURSIVE FreeScan(_, _, _, _)
FreeScan(rs, slice_start, slice_end, i) ==
    IF i > Len(rs)
    THEN \* the loop ran out: idx is the last index visited (0 on an empty list)
         InsertAt(rs, IF Len(rs) = 0 THEN 1 ELSE Len(rs), Range(slice_start, slice_end))
    ELSE IF rs[i].start <= slice_start THEN FreeScan(rs, slice_start, slice_end, i + 1)
    ELSE IF rs[i].start = slice_end
    THEN IF i > 1 /\ rs[i - 1].end = slice_start
         THEN [Remove(rs, i - 1) EXCEPT ![i - 1].start = rs[i - 1].start]
         ELSE [rs EXCEPT ![i].start = slice_start]
    ELSE IF i # 1 /\ rs[i - 1].end = slice_start
    THEN [rs EXCEPT ![i - 1].end = slice_end]
    ELSE InsertAt(rs, i, Range(slice_start, slice_end))

free(rs, slice) == FreeScan(rs, slice.offset, slice.offset + slice.size, 1)

(***************************************************************************)
(* The allocator driven directly: any sequence of alloc and free calls,    *)
(* each free applied to a live slice.                                      *)
(***************************************************************************)
NoSlice == [offset |-> 0, size |-> 0]

\* The region of the documented scenario: DeviceBuffer.size and .alignment
ScenarioBuffer == [size |-> 1024, alignment |-> 256]

\* The regions the direct client is given
Regions == {[size |-> BufferSize, alignment |-> Alignment], ScenarioBuffer}

\* The sizes the direct client asks alloc for: the two sizes of the scenario
\* on the scenario's region; on the small region every size up to MaxReq
\* and, while it holds no slice, the largest u64
Requests(buf, held) ==
    IF buf = ScenarioBuffer THEN {100, 1000}
    ELSE 1..MaxReq \cup (IF held = EmptyBag THEN {Word - 1} ELSE {})

NoOp == [op |-> "init", req |-> 0, kind |-> "none", slice |-> NoSlice]

\* The last mesh call ("free_unknown": a free_mesh that found no entry): for
\* a free_mesh, regen tells that it freed the id the gen_mesh right before it
\* returned; for a gen_mesh, that it follows such a pair of calls
NoMeshOp == [op |-> "init", id |-> 0, regen |-> FALSE]

\* The device memory regions of a renderer: those of general_allocator and
\* descriptor_allocator (make_renderer) and the one of the pipeline's
\* buffer_allocator
RegionNames == {"general", "descriptor", "pipeline_buffer"}

NotReleased == [r \in RegionNames |-> 0]

AllocInit ==
    /\ overflow_checks = "unknown"
    /\ buffer \in Regions
    /\ ranges = wrap(buffer.size)
    /\ fatal = "none"
    /\ live = EmptyBag
    /\ lastOp = NoOp
    /\ trip = "none"
    /\ calls = 0
    /\ textures_by_id = << >>
    /\ optimal_transition_queue = << >>
    /\ ongoing_optimal_transitions = << >>
    /\ current_frame = 0
    /\ pc = "idle"
    /\ stage_index = 0
    /\ current_timeline_counter = << >>
    /\ timeline = 0
    /\ fence = TRUE
    /\ gpu_queue = << >>
    /\ gpu_done = 0
    /\ signaled = {}
    /\ freed = << >>
    /\ recorded = << >>
    /\ mesh_buffer_ids = {}
    /\ mesh_buffers_by_id = << >>
    /\ last_mesh = NoMeshOp
    /\ mesh_calls = 0
    /\ batches_by_task_type = << >>
    /\ released = NotReleased

\* What a panic or an out-of-bounds pointer leaves of the program
Outcome(kind) ==
    CASE kind = "panic" -> "alloc panicked"
      [] kind = "ub"    -> "undefined behaviour"
      [] OTHER          -> "none"

\* DeviceAllocator::alloc
CallAlloc(size) ==
    /\ fatal = "none"
    /\ calls < MaxCalls
    /\ BagCardinality(live) < MaxLive
    /\ \E checks \in Profiles(overflow_checks) :
       LET r == alloc(buffer, ranges, size, checks)
           fresh == ranges = wrap(buffer.size) /\ live = EmptyBag
       IN  /\ overflow_checks' = IF r.overflowed THEN checks ELSE overflow_checks
           /\ ranges' = r.ranges
           /\ fatal' = Outcome(r.kind)
           /\ live' = IF r.kind = "some" THEN live (+) SetToBag({r.slice}) ELSE live
           /\ lastOp' = [op |-> "alloc", req |-> size, kind |-> r.kind,
                         slice |-> IF r.kind = "some" THEN r.slice ELSE NoSlice]
           /\ trip' = IF ~fresh THEN "none"
                      ELSE IF r.kind = "some" THEN "allocated" ELSE "refused"
    /\ calls' = calls + 1
    /\ UNCHANGED <<buffer, render_vars>>

\* DeviceAllocator::free
CallFree(slice) ==
    /\ fatal = "none"
    /\ calls < MaxCalls
    /\ BagIn(slice, live)
    /\ ranges' = free(ranges, slice)
    /\ live' = live (-) SetToBag({slice})
    /\ lastOp' = [op |-> "free", req |-> 0, kind |-> "none", slice |-> slice]
    /\ trip' = IF trip = "allocated" THEN "done" ELSE "none"
    /\ calls' = calls + 1
    /\ UNCHANGED <<fatal, overflow_checks, buffer, render_vars>>

AllocNext ==
    \/ \E size \in Requests(buffer, live) : CallAlloc(size)
    \/ \E slice \in BagToSet(live) : CallFree(slice)

AllocSpec == AllocInit /\ [][AllocNext]_vars

(***************************************************************************)
(* The renderer: textures, the per-frame sequence of render(), and the GPU *)
(* executing what present_queue was given.                                 *)
(***************************************************************************)
None == << >>
Some(x) == << x >>

\* signal_value_for giving every stage of a frame the same slot
signal_value_ignores_stage(frame, stage) == frame * TotalStages

\* Pipeline::signal_value_for
signal_value_for(frame, stage) == frame * TotalStages + stage

\* DescriptorBuffer::next_free of image_descriptors: one slot per texture
\* placed, none ever released
next_free(textures) == Len(textures)

\* Stage::wait_for_previous_frame returns
wait_for_previous_frame(stage, frame, counter) ==
    frame = 0 \/ counter >= signal_value_for(frame - 1, stage)

\* Renderer::is_texture_uploaded, for the id of a texture entry
is_texture_uploaded(id) == textures_by_id[id + 1].staging = None

\* make_test_triangle: the free list after its three alloc calls
TriangleRanges ==
    LET buf == [size |-> GeneralSize, alignment |-> Alignment]
        vertex_buffer    == alloc(buf, wrap(GeneralSize), TriangleAttribBytes, "unknown")
        normal_buffer    == alloc(buf, vertex_buffer.ranges, TriangleAttribBytes, "unknown")
        tex_coord_buffer == alloc(buf, normal_buffer.ranges, TriangleAttribBytes, "unknown")
    IN  tex_coord_buffer.ranges

\* make_test_triangle: the MeshBuffer it returns
test_triangle ==
    LET buf == [size |-> GeneralSize, alignment |-> Alignment]
        vertex_buffer    == alloc(buf, wrap(GeneralSize), TriangleAttribBytes, "unknown")
        normal_buffer    == alloc(buf, vertex_buffer.ranges, TriangleAttribBytes, "unknown")
        tex_coord_buffer == alloc(buf, normal_buffer.ranges, TriangleAttribBytes, "unknown")
    IN  [vertices |-> vertex_buffer.slice, normals |-> normal_buffer.slice,
         tex_coords |-> tex_coord_buffer.slice, indices |-> NoSlice]

\* Renderer::ID_TEST_TRIANGLE
ID_TEST_TRIANGLE == 0

\* make_renderer: the state it returns, the default texture (id 0, no staging)
\* generated
Init ==
    /\ overflow_checks = "unknown"
    /\ buffer = [size |-> GeneralSize, alignment |-> Alignment]
    /\ ranges = TriangleRanges
    /\ fatal = "none"
    /\ live = EmptyBag
    /\ lastOp = NoOp
    /\ trip = "none"
    /\ calls = 0
    /\ textures_by_id = << [staging |-> None, requested |-> FALSE] >>
    /\ optimal_transition_queue = << >>
    /\ ongoing_optimal_transitions = << >>
    /\ current_frame = 0
    /\ pc = "idle"
    /\ stage_index = 0
    /\ current_timeline_counter = << >>
    /\ timeline = 0
    /\ fence = TRUE
    /\ gpu_queue = << >>
    /\ gpu_done = 0
    /\ signaled = {}
    /\ freed = << 0 >>
    /\ recorded = << -1 >>
    /\ mesh_buffer_ids = {ID_TEST_TRIANGLE}
    /\ mesh_buffers_by_id = (ID_TEST_TRIANGLE :> test_triangle)
    /\ last_mesh = NoMeshOp
    /\ mesh_calls = 0
    /\ batches_by_task_type = [k \in 1..TaskKinds |-> << >>]
    /\ released = NotReleased

\* gen_texture that allocates the staging slice and does not keep it in the
\* texture
gen_texture_drops_staging(staging_size) ==
    /\ fatal = "none"
    /\ pc = "idle"
    /\ Len(textures_by_id) <= MaxTextures
    /\ \E checks \in Profiles(overflow_checks) :
       LET texture_id == next_free(textures_by_id)
           r == IF staging_size > 0
                THEN alloc(buffer, ranges, staging_size, checks)
                ELSE [kind |-> "empty", ranges |-> ranges, overflowed |-> FALSE]
           staging == IF r.kind = "some" THEN Some(r.slice) ELSE None
       IN  /\ overflow_checks' = IF r.overflowed THEN checks ELSE overflow_checks
           /\ ranges' = r.ranges
           /\ IF r.kind \in {"some", "empty"}
              THEN /\ textures_by_id' =
                        [k \in 1..(texture_id + 1) |->
                            IF k = texture_id + 1 THEN [staging |-> None, requested |-> staging_size > 0]
                            ELSE textures_by_id[k]]
                   /\ freed' = Append(freed, 0)
                   /\ recorded' = Append(recorded, -1)
                   /\ fatal' = "none"
              ELSE /\ fatal' = IF r.kind = "none" THEN "can't allocate staging buffer"
                               ELSE Outcome(r.kind)
                   /\ UNCHANGED <<textures_by_id, freed, recorded>>
    /\ UNCHANGED <<buffer, client_vars, table_vars, optimal_transition_queue,
                   ongoing_optimal_transitions, frame_vars, gpu_vars>>

\* Renderer::gen_texture
gen_texture(staging_size) ==
    /\ fatal = "none"
    /\ pc = "idle"
    /\ Len(textures_by_id) <= MaxTextures
    /\ \E checks \in Profiles(overflow_checks) :
       LET texture_id == next_free(textures_by_id)
           r == IF staging_size > 0
                THEN alloc(buffer, ranges, staging_size, checks)
                ELSE [kind |-> "empty", ranges |-> ranges, overflowed |-> FALSE]
           staging == IF r.kind = "some" THEN Some(r.slice) ELSE None
       IN  /\ overflow_checks' = IF r.overflowed THEN checks ELSE overflow_checks
           /\ ranges' = r.ranges
           /\ IF r.kind \in {"some", "empty"}
              THEN /\ textures_by_id' =
                        [k \in 1..(texture_id + 1) |->
                            IF k = texture_id + 1 THEN [staging |-> staging, requested |-> staging_size > 0]
                            ELSE textures_by_id[k]]
                   /\ freed' = Append(freed, 0)
                   /\ recorded' = Append(recorded, -1)
                   /\ fatal' = "none"
              ELSE /\ fatal' = IF r.kind = "none" THEN "can't allocate staging buffer"
                               ELSE Outcome(r.kind)
                   /\ UNCHANGED <<textures_by_id, freed, recorded>>
    /\ UNCHANGED <<buffer, client_vars, table_vars, optimal_transition_queue,
                   ongoing_optimal_transitions, frame_vars, gpu_vars>>

\* Renderer::queue_texture_for_uploading
queue_texture_for_uploading(id) ==
    /\ fatal = "none"
    /\ pc = "idle"
    /\ Len(optimal_transition_queue) < MaxQueued
    /\ IF id + 1 \in DOMAIN textures_by_id
       THEN /\ optimal_transition_queue' = Append(optimal_transition_queue, id)
            /\ UNCHANGED fatal
       ELSE /\ fatal' = "missing texture"
            /\ UNCHANGED optimal_transition_queue
    /\ UNCHANGED <<overflow_checks, buffer, ranges, client_vars, table_vars, textures_by_id,
                   ongoing_optimal_transitions, freed, recorded, frame_vars, gpu_vars>>

\* Renderer::is_texture_uploaded called by the client: the reply does not
\* change the renderer, an id without entry panics
call_is_texture_uploaded(id) ==
    /\ fatal = "none"
    /\ pc = "idle"
    /\ fatal' = IF id + 1 \in DOMAIN textures_by_id THEN "none" ELSE "missing texture"
    /\ UNCHANGED <<overflow_checks, buffer, ranges, client_vars, table_vars, texture_vars,
                   frame_vars, gpu_vars>>

\* gen_mesh's alloc_or_empty applied to the four sizes in turn
RECURSIVE AllocOrEmpty(_, _, _, _, _, _, _)
AllocOrEmpty(buf, rs, sizes, i, checks, slices, met) ==
    IF i > Len(sizes)
    THEN [kind |-> "some", ranges |-> rs, slices |-> slices, overflowed |-> met]
    ELSE IF sizes[i] = 0
    THEN AllocOrEmpty(buf, rs, sizes, i + 1, checks, Append(slices, NoSlice), met)
    ELSE LET r == alloc(buf, rs, sizes[i], checks)
         IN  IF r.kind = "some"
             THEN AllocOrEmpty(buf, r.ranges, sizes, i + 1, checks,
                               Append(slices, r.slice), met \/ r.overflowed)
             ELSE [kind |-> r.kind, ranges |-> r.ranges, slices |-> slices,
                   overflowed |-> met \/ r.overflowed]

\* first_zero taking the highest unset bit instead of the lowest
last_zero(ids) ==
    LET zeros == {id \in 0..(MeshIds - 1) : id \notin ids}
    IN  IF zeros = {} THEN None
        ELSE Some(CHOOSE id \in zeros : \A other \in zeros : id >= other)

\* BitVec::first_zero over the MeshIds bits of mesh_buffer_ids
first_zero(ids) ==
    LET zeros == {id \in 0..(MeshIds - 1) : id \notin ids}
    IN  IF zeros = {} THEN None
        ELSE Some(CHOOSE id \in zeros : \A other \in zeros : id <= other)

\* Renderer::gen_mesh
gen_mesh(vertices_size, normals_size, tex_coords_size, indices_size) ==
    /\ fatal = "none"
    /\ pc = "idle"
    /\ mesh_calls < MaxMeshCalls
    /\ mesh_calls' = mesh_calls + 1
    /\ \E checks \in Profiles(overflow_checks) :
       LET r == AllocOrEmpty(buffer, ranges,
                    <<vertices_size, normals_size, tex_coords_size, indices_size>>,
                    1, checks, << >>, FALSE)
           mesh_id == first_zero(mesh_buffer_ids)
       IN  /\ overflow_checks' = IF r.overflowed THEN checks ELSE overflow_checks
           /\ ranges' = r.ranges
           /\ IF r.kind # "some"
              THEN /\ fatal' = IF r.kind = "none" THEN "couldnt allocate mesh buffer"
                               ELSE Outcome(r.kind)
                   /\ UNCHANGED <<mesh_buffer_ids, mesh_buffers_by_id, last_mesh>>
              ELSE IF mesh_id = None
              THEN /\ fatal' = "ran out of mesh ids!"
                   /\ UNCHANGED <<mesh_buffer_ids, mesh_buffers_by_id, last_mesh>>
              ELSE /\ fatal' = "none"
                   /\ mesh_buffer_ids' = mesh_buffer_ids \cup {mesh_id[1]}
                   /\ mesh_buffers_by_id' =
                        [id \in DOMAIN mesh_buffers_by_id \cup {mesh_id[1]} |->
                            IF id = mesh_id[1]
                            THEN [vertices |-> r.slices[1], normals |-> r.slices[2],
                                  tex_coords |-> r.slices[3], indices |-> r.slices[4]]
                            ELSE mesh_buffers_by_id[id]]
                   /\ last_mesh' = [op |-> "gen", id |-> mesh_id[1],
                                    regen |-> last_mesh.op = "free" /\ last_mesh.regen]
    /\ UNCHANGED <<buffer, client_vars, batches_by_task_type, released, texture_vars,
                   frame_vars, gpu_vars>>

\* free_if_not_empty without its test of the size: every slice is freed
RECURSIVE FreeEvenIfEmpty(_, _, _)
FreeEvenIfEmpty(rs, slices, i) ==
    IF i > Len(slices) THEN rs
    ELSE FreeEvenIfEmpty(free(rs, slices[i]), slices, i + 1)

\* free_mesh's free_if_not_empty applied to the four slices in turn
RECURSIVE FreeIfNotEmpty(_, _, _)
FreeIfNotEmpty(rs, slices, i) ==
    IF i > Len(slices) THEN rs
    ELSE FreeIfNotEmpty(IF slices[i].size > 0 THEN free(rs, slices[i]) ELSE rs, slices, i + 1)

\* free_mesh looking the mesh up without removing its entry
free_mesh_keeps_entry(id) ==
    /\ fatal = "none"
    /\ pc = "idle"
    /\ mesh_calls < MaxMeshCalls
    /\ mesh_calls' = mesh_calls + 1
    /\ IF id \notin DOMAIN mesh_buffers_by_id
       THEN /\ fatal' = "couldn't find mesh"
            /\ last_mesh' = [op |-> "free_unknown", id |-> id, regen |-> FALSE]
            /\ UNCHANGED <<ranges, mesh_buffer_ids, mesh_buffers_by_id>>
       ELSE LET mesh == mesh_buffers_by_id[id]
            IN  /\ mesh_buffers_by_id' = mesh_buffers_by_id
                /\ ranges' = FreeIfNotEmpty(ranges,
                        <<mesh.vertices, mesh.normals, mesh.tex_coords, mesh.indices>>, 1)
                /\ mesh_buffer_ids' = mesh_buffer_ids \ {id}
                /\ last_mesh' = [op |-> "free", id |-> id,
                                 regen |-> last_mesh.op = "gen" /\ last_mesh.id = id]
                /\ UNCHANGED fatal
    /\ UNCHANGED <<overflow_checks, buffer, client_vars, batches_by_task_type, released,
                   texture_vars, frame_vars, gpu_vars>>

\* free_mesh leaving the presence bit of the id set
free_mesh_keeps_bit(id) ==
    /\ fatal = "none"
    /\ pc = "idle"
    /\ mesh_calls < MaxMeshCalls
    /\ mesh_calls' = mesh_calls + 1
    /\ IF id \notin DOMAIN mesh_buffers_by_id
       THEN /\ fatal' = "couldn't find mesh"
            /\ last_mesh' = [op |-> "free_unknown", id |-> id, regen |-> FALSE]
            /\ UNCHANGED <<ranges, mesh_buffer_ids, mesh_buffers_by_id>>
       ELSE LET mesh == mesh_buffers_by_id[id]
            IN  /\ mesh_buffers_by_id' =
                        [other \in DOMAIN mesh_buffers_by_id \ {id} |-> mesh_buffers_by_id[other]]
                /\ ranges' = FreeIfNotEmpty(ranges,
                        <<mesh.vertices, mesh.normals, mesh.tex_coords, mesh.indices>>, 1)
                /\ mesh_buffer_ids' = mesh_buffer_ids
                /\ last_mesh' = [op |-> "free", id |-> id,
                                 regen |-> last_mesh.op = "gen" /\ last_mesh.id = id]
                /\ UNCHANGED fatal
    /\ UNCHANGED <<overflow_checks, buffer, client_vars, batches_by_task_type, released,
                   texture_vars, frame_vars, gpu_vars>>

\* Renderer::free_mesh
free_mesh(id) ==
    /\ fatal = "none"
    /\ pc = "idle"
    /\ mesh_calls < MaxMeshCalls
    /\ mesh_calls' = mesh_calls + 1
    /\ IF id \notin DOMAIN mesh_buffers_by_id
       THEN /\ fatal' = "couldn't find mesh"
            /\ last_mesh' = [op |-> "free_unknown", id |-> id, regen |-> FALSE]
            /\ UNCHANGED <<ranges, mesh_buffer_ids, mesh_buffers_by_id>>
       ELSE LET mesh == mesh_buffers_by_id[id]
            IN  /\ mesh_buffers_by_id' =
                        [other \in DOMAIN mesh_buffers_by_id \ {id} |-> mesh_buffers_by_id[other]]
                /\ ranges' = FreeIfNotEmpty(ranges,
                        <<mesh.vertices, mesh.normals, mesh.tex_coords, mesh.indices>>, 1)
                /\ mesh_buffer_ids' = mesh_buffer_ids \ {id}
                /\ last_mesh' = [op |-> "free", id |-> id,
                                 regen |-> last_mesh.op = "gen" /\ last_mesh.id = id]
                /\ UNCHANGED fatal
    /\ UNCHANGED <<overflow_checks, buffer, client_vars, batches_by_task_type, released,
                   texture_vars, frame_vars, gpu_vars>>

\* The number of tasks the batches hold
RECURSIVE TaskCount(_, _)
TaskCount(batches, k) ==
    IF k > Len(batches) THEN 0 ELSE Len(batches[k]) + TaskCount(batches, k + 1)

\* Renderer::add_task_to_queue; a task is its kind and, to tell the tasks of
\* different frames apart, the number of render() calls completed before it
\* was added
add_task_to_queue(kind) ==
    /\ fatal = "none"
    /\ pc = "idle"
    /\ TaskCount(batches_by_task_type, 1) < MaxTasks
    /\ LET task == [kind |-> kind, added |-> current_frame]
       IN  batches_by_task_type' =
                IF kind + 1 \in DOMAIN batches_by_task_type
                THEN [batches_by_task_type EXCEPT ![kind + 1] = Append(@, task)]
                ELSE batches_by_task_type
    /\ UNCHANGED <<alloc_vars, client_vars, mesh_vars, released, texture_vars, frame_vars,
                   gpu_vars>>

\* The handles Renderer::destroy calls DeviceAllocator::destroy on, in order,
\* each with the region it refers to: the pipeline's buffer_allocator and
\* descriptor_allocator (Pipeline::destroy), then the renderer's
\* general_allocator and descriptor_allocator.  The pipeline's
\* descriptor_allocator is the handle make_renderer lends to Pipeline::load,
\* cloned: a second handle to the renderer's descriptor region.
DestroyedHandles == <<"pipeline_buffer", "descriptor", "general", "descriptor">>

\* InnerDeviceAllocator::destroy on each handle of a list: destroy_buffer and
\* free_memory on the region's buffer and memory
RECURSIVE DestroyAll(_, _, _)
DestroyAll(handles, i, count) ==
    IF i > Len(handles) THEN count
    ELSE DestroyAll(handles, i + 1, [count EXCEPT ![handles[i]] = @ + 1])

\* The timeline values and frames of the work present_queue still holds
QueuedValues(kind) == {gpu_queue[k].value : k \in {j \in DOMAIN gpu_queue : gpu_queue[j].kind = kind}}

Highest(S, least) == IF S = {} THEN least ELSE CHOOSE x \in S : \A y \in S : x >= y

\* Renderer::destroy: the pipeline and the allocators, then device_wait_idle
\* (the GPU finishes what it was given), then the rest of the device
destroy ==
    /\ fatal = "none"
    /\ pc = "idle"
    /\ released' = DestroyAll(DestroyedHandles, 1, released)
    /\ timeline' = Highest(QueuedValues("signal") \cup {timeline}, timeline)
    /\ signaled' = signaled \cup QueuedValues("signal")
    /\ gpu_done' = Highest({v + 1 : v \in QueuedValues("commands")}, gpu_done)
    /\ fence' = (fence \/ QueuedValues("commands") # {})
    /\ gpu_queue' = << >>
    /\ pc' = "destroyed"
    /\ UNCHANGED <<alloc_vars, client_vars, mesh_vars, batches_by_task_type, texture_vars,
                   current_frame, stage_index, current_timeline_counter>>

\* Renderer::render up to process_stages: acquire_next_image, then
\* record_submit_commandbuffer waits for the reuse fence, resets it and begins
\* the command buffer
RenderBegin ==
    /\ fatal = "none"
    /\ pc = "idle"
    /\ current_frame < MaxFrames
    /\ fence
    /\ fence' = FALSE
    /\ pc' = "reclaim"
    /\ UNCHANGED <<alloc_vars, client_vars, table_vars, texture_vars, current_frame, stage_index,
                   current_timeline_counter, timeline, gpu_queue, gpu_done, signaled>>

\* Retain with the threshold test dropped: every pending record is reclaimed
RECURSIVE RetainAnyValue(_, _, _, _, _, _, _)
RetainAnyValue(pending, i, counter, kept, texs, rs, log) ==
    IF i > Len(pending)
    THEN [ok |-> TRUE, ongoing |-> kept, textures |-> texs, ranges |-> rs, freed |-> log]
    ELSE LET e == pending[i]
             texture == texs[e.texture + 1]
         IN  IF texture.staging = None
             THEN [ok |-> FALSE, ongoing |-> kept \o SubSeq(pending, i, Len(pending)),
                   textures |-> texs, ranges |-> rs, freed |-> log]
             ELSE RetainAnyValue(pending, i + 1, counter, kept,
                         [texs EXCEPT ![e.texture + 1].staging = None],
                         free(rs, texture.staging[1]),
                         [log EXCEPT ![e.texture + 1] = @ + 1])

\* Retain with "texture.staging = None" forgotten after the free
RECURSIVE RetainKeepsStaging(_, _, _, _, _, _, _)
RetainKeepsStaging(pending, i, counter, kept, texs, rs, log) ==
    IF i > Len(pending)
    THEN [ok |-> TRUE, ongoing |-> kept, textures |-> texs, ranges |-> rs, freed |-> log]
    ELSE LET e == pending[i]
             texture == texs[e.texture + 1]
         IN  IF e.value > counter
             THEN RetainKeepsStaging(pending, i + 1, counter, Append(kept, e), texs, rs, log)
             ELSE IF texture.staging = None
             THEN [ok |-> FALSE, ongoing |-> kept \o SubSeq(pending, i, Len(pending)),
                   textures |-> texs, ranges |-> rs, freed |-> log]
             ELSE RetainKeepsStaging(pending, i + 1, counter, kept, texs,
                         free(rs, texture.staging[1]),
                         [log EXCEPT ![e.texture + 1] = @ + 1])

\* Retain dropping a satisfied record whose texture has no staging slice
\* instead of panicking
RECURSIVE RetainSkipsMissing(_, _, _, _, _, _, _)
RetainSkipsMissing(pending, i, counter, kept, texs, rs, log) ==
    IF i > Len(pending)
    THEN [ok |-> TRUE, ongoing |-> kept, textures |-> texs, ranges |-> rs, freed |-> log]
    ELSE LET e == pending[i]
             texture == texs[e.texture + 1]
         IN  IF e.value > counter
             THEN RetainSkipsMissing(pending, i + 1, counter, Append(kept, e), texs, rs, log)
             ELSE IF texture.staging = None
             THEN RetainSkipsMissing(pending, i + 1, counter, kept, texs, rs, log)
             ELSE RetainSkipsMissing(pending, i + 1, counter, kept,
                         [texs EXCEPT ![e.texture + 1].staging = None],
                         free(rs, texture.staging[1]),
                         [log EXCEPT ![e.texture + 1] = @ + 1])

\* The retain closure of process_stages, run over the pending transitions in
\* order: a record whose value the counter has reached frees the staging
\* slice and clears the field, or panics when the field is already clear.
RECURSIVE Retain(_, _, _, _, _, _, _)
Retain(pending, i, counter, kept, texs, rs, log) ==
    IF i > Len(pending)
    THEN [ok |-> TRUE, ongoing |-> kept, textures |-> texs, ranges |-> rs, freed |-> log]
    ELSE LET e == pending[i]
             texture == texs[e.texture + 1]
         IN  IF e.value > counter
             THEN Retain(pending, i + 1, counter, Append(kept, e), texs, rs, log)
             ELSE IF texture.staging = None
             THEN [ok |-> FALSE, ongoing |-> kept \o SubSeq(pending, i, Len(pending)),
                   textures |-> texs, ranges |-> rs, freed |-> log]
             ELSE Retain(pending, i + 1, counter, kept,
                         [texs EXCEPT ![e.texture + 1].staging = None],
                         free(rs, texture.staging[1]),
                         [log EXCEPT ![e.texture + 1] = @ + 1])

\* process_stages: reclaim the pending uploads the timeline counter has passed
RenderReclaim ==
    /\ fatal = "none"
    /\ pc = "reclaim"
    /\ IF ongoing_optimal_transitions = << >>
       THEN UNCHANGED <<ongoing_optimal_transitions, textures_by_id, ranges, freed, fatal,
                        current_timeline_counter>>
       ELSE LET r == Retain(ongoing_optimal_transitions, 1, timeline,
                            << >>, textures_by_id, ranges, freed)
            IN  /\ current_timeline_counter' = Some(timeline)
                /\ ongoing_optimal_transitions' = r.ongoing
                /\ textures_by_id' = r.textures
                /\ ranges' = r.ranges
                /\ freed' = r.freed
                /\ fatal' = IF r.ok THEN "none" ELSE "staging buffer is missing"
    /\ pc' = "drain"
    /\ UNCHANGED <<overflow_checks, buffer, client_vars, table_vars, optimal_transition_queue,
                   recorded, current_frame, stage_index, gpu_vars>>

\* RenderDrain freeing the staging slice as soon as the transition is
\* recorded, instead of deferring it to a later frame
RECURSIVE FreeQueued(_, _, _, _, _)
FreeQueued(queue, i, texs, rs, log) ==
    IF i > Len(queue)
    THEN [textures |-> texs, ranges |-> rs, freed |-> log]
    ELSE LET k == queue[i] + 1
         IN  IF texs[k].staging = None
             THEN FreeQueued(queue, i + 1, texs, rs, log)
             ELSE FreeQueued(queue, i + 1, [texs EXCEPT ![k].staging = None],
                             free(rs, texs[k].staging[1]), [log EXCEPT ![k] = @ + 1])

RenderDrainFreesAtOnce ==
    /\ fatal = "none"
    /\ pc = "drain"
    /\ LET r == FreeQueued(optimal_transition_queue, 1, textures_by_id, ranges, freed)
       IN  /\ textures_by_id' = r.textures
           /\ ranges' = r.ranges
           /\ freed' = r.freed
    /\ recorded' = [k \in 1..Len(recorded) |->
            IF \E j \in 1..Len(optimal_transition_queue) :
                    optimal_transition_queue[j] + 1 = k
            THEN current_frame ELSE recorded[k]]
    /\ optimal_transition_queue' = << >>
    /\ current_timeline_counter' = None
    /\ stage_index' = 0
    /\ pc' = IF TotalStages = 0 THEN "submit" ELSE "wait"
    /\ UNCHANGED <<overflow_checks, buffer, fatal, client_vars, table_vars,
                   ongoing_optimal_transitions, current_frame, gpu_vars>>

\* RenderDrain putting the new pending records in front of the older ones
RenderDrainPushesFront ==
    /\ fatal = "none"
    /\ pc = "drain"
    /\ ongoing_optimal_transitions' =
            [k \in 1..Len(optimal_transition_queue) |->
                [texture |-> optimal_transition_queue[k],
                 value   |-> signal_value_for(current_frame + 1, 0)]]
            \o ongoing_optimal_transitions
    /\ recorded' = [k \in 1..Len(recorded) |->
            IF \E j \in 1..Len(optimal_transition_queue) :
                    optimal_transition_queue[j] + 1 = k
            THEN current_frame ELSE recorded[k]]
    /\ optimal_transition_queue' = << >>
    /\ current_timeline_counter' = None
    /\ stage_index' = 0
    /\ pc' = IF TotalStages = 0 THEN "submit" ELSE "wait"
    /\ UNCHANGED <<alloc_vars, client_vars, table_vars, textures_by_id, freed, current_frame, gpu_vars>>

\* RenderDrain taking the completion value from the frame being recorded
RenderDrainThisFrame ==
    /\ fatal = "none"
    /\ pc = "drain"
    /\ ongoing_optimal_transitions' = ongoing_optimal_transitions \o
            [k \in 1..Len(optimal_transition_queue) |->
                [texture |-> optimal_transition_queue[k],
                 value   |-> signal_value_for(current_frame, 0)]]
    /\ recorded' = [k \in 1..Len(recorded) |->
            IF \E j \in 1..Len(optimal_transition_queue) :
                    optimal_transition_queue[j] + 1 = k
            THEN current_frame ELSE recorded[k]]
    /\ optimal_transition_queue' = << >>
    /\ current_timeline_counter' = None
    /\ stage_index' = 0
    /\ pc' = IF TotalStages = 0 THEN "submit" ELSE "wait"
    /\ UNCHANGED <<alloc_vars, client_vars, table_vars, textures_by_id, freed, current_frame, gpu_vars>>

\* process_stages: drain optimal_transition_queue, recording each transition
\* into the command buffer and its completion value into the pending list
RenderDrain ==
    /\ fatal = "none"
    /\ pc = "drain"
    /\ ongoing_optimal_transitions' = ongoing_optimal_transitions \o
            [k \in 1..Len(optimal_transition_queue) |->
                [texture |-> optimal_transition_queue[k],
                 value   |-> signal_value_for(current_frame + 1, 0)]]
    /\ recorded' = [k \in 1..Len(recorded) |->
            IF \E j \in 1..Len(optimal_transition_queue) :
                    optimal_transition_queue[j] + 1 = k
            THEN current_frame ELSE recorded[k]]
    /\ optimal_transition_queue' = << >>
    /\ current_timeline_counter' = None
    /\ stage_index' = 0
    /\ pc' = IF TotalStages = 0 THEN "submit" ELSE "wait"
    /\ UNCHANGED <<alloc_vars, client_vars, table_vars, textures_by_id, freed, current_frame, gpu_vars>>

\* process_stages: stage.wait_for_previous_frame
StageWait ==
    /\ fatal = "none"
    /\ pc = "wait"
    /\ wait_for_previous_frame(stage_index, current_frame, timeline)
    /\ pc' = "record"
    /\ UNCHANGED <<alloc_vars, client_vars, table_vars, texture_vars, current_frame, stage_index,
                   current_timeline_counter, gpu_vars>>

\* process_stages: stage.render
StageRender ==
    /\ fatal = "none"
    /\ pc = "record"
    /\ pc' = "signal"
    /\ UNCHANGED <<alloc_vars, client_vars, table_vars, texture_vars, current_frame, stage_index,
                   current_timeline_counter, gpu_vars>>

\* StageSignal leaving the loop over the stages after the first stage
StageSignalEndsPass ==
    /\ fatal = "none"
    /\ pc = "signal"
    /\ gpu_queue' = Append(gpu_queue,
            [kind |-> "signal", value |-> signal_value_for(current_frame, stage_index)])
    /\ stage_index' = stage_index + 1
    /\ pc' = "submit"
    /\ UNCHANGED <<alloc_vars, client_vars, table_vars, texture_vars, current_frame,
                   current_timeline_counter, timeline, fence, gpu_done, signaled>>

\* StageSignal going on to the next stage without enqueueing the signal
StageSignalEnqueuesNothing ==
    /\ fatal = "none"
    /\ pc = "signal"
    /\ gpu_queue' = gpu_queue
    /\ stage_index' = stage_index + 1
    /\ pc' = IF stage_index + 1 < TotalStages THEN "wait" ELSE "submit"
    /\ UNCHANGED <<alloc_vars, client_vars, table_vars, texture_vars, current_frame,
                   current_timeline_counter, timeline, fence, gpu_done, signaled>>

\* process_stages: stage.signal_next_frame, then the next stage
StageSignal ==
    /\ fatal = "none"
    /\ pc = "signal"
    /\ gpu_queue' = Append(gpu_queue,
            [kind |-> "signal", value |-> signal_value_for(current_frame, stage_index)])
    /\ stage_index' = stage_index + 1
    /\ pc' = IF stage_index + 1 < TotalStages THEN "wait" ELSE "submit"
    /\ UNCHANGED <<alloc_vars, client_vars, table_vars, texture_vars, current_frame,
                   current_timeline_counter, timeline, fence, gpu_done, signaled>>

\* record_submit_commandbuffer: end the command buffer and submit it with the
\* reuse fence
RenderSubmit ==
    /\ fatal = "none"
    /\ pc = "submit"
    /\ gpu_queue' = Append(gpu_queue, [kind |-> "commands", value |-> current_frame])
    /\ pc' = "present"
    /\ UNCHANGED <<alloc_vars, client_vars, table_vars, texture_vars, current_frame, stage_index,
                   current_timeline_counter, timeline, fence, gpu_done, signaled>>

\* RenderPresent without the call of incr_current_frame
RenderPresentSameFrame ==
    /\ fatal = "none"
    /\ pc = "present"
    /\ batches_by_task_type' = [k \in DOMAIN batches_by_task_type |-> << >>]
    /\ pc' = "idle"
    /\ UNCHANGED <<alloc_vars, client_vars, mesh_vars, released, texture_vars, current_frame,
                   stage_index, current_timeline_counter, gpu_vars>>

\* RenderPresent without the loop that clears the batches
RenderPresentKeepsBatches ==
    /\ fatal = "none"
    /\ pc = "present"
    /\ current_frame' = current_frame + 1
    /\ pc' = "idle"
    /\ UNCHANGED <<alloc_vars, client_vars, table_vars, texture_vars, stage_index,
                   current_timeline_counter, gpu_vars>>

\* Renderer::render after record_submit_commandbuffer: present, then
\* incr_current_frame
RenderPresent ==
    /\ fatal = "none"
    /\ pc = "present"
    /\ current_frame' = current_frame + 1
    /\ batches_by_task_type' = [k \in DOMAIN batches_by_task_type |-> << >>]
    /\ pc' = "idle"
    /\ UNCHANGED <<alloc_vars, client_vars, mesh_vars, released, texture_vars, stage_index,
                   current_timeline_counter, gpu_vars>>

\* The GPU executes the oldest submission of present_queue: a timeline signal
\* sets the counter, a finished command buffer signals the reuse fence.
GpuStep ==
    /\ fatal = "none"
    /\ gpu_queue # << >>
    /\ LET op == Head(gpu_queue)
       IN  IF op.kind = "signal"
           THEN /\ timeline' = op.value
                /\ signaled' = signaled \cup {op.value}
                /\ UNCHANGED <<fence, gpu_done>>
           ELSE /\ gpu_done' = op.value + 1
                /\ fence' = TRUE
                /\ UNCHANGED <<timeline, signaled>>
    /\ gpu_queue' = Tail(gpu_queue)
    /\ UNCHANGED <<alloc_vars, client_vars, table_vars, texture_vars, frame_vars>>

RenderStep ==
    \/ RenderBegin
    \/ RenderReclaim
    \/ RenderDrain
    \/ StageWait
    \/ StageRender
    \/ StageSignal
    \/ RenderSubmit
    \/ RenderPresent

Next ==
    \/ \E staging_size \in 0..MaxStaging : gen_texture(staging_size)
    \/ \E id \in 0..(MaxTextures + 1) : queue_texture_for_uploading(id)
    \/ RenderStep
    \/ GpuStep

Spec == Init /\ [][Next]_vars

\* The resource tables alone: meshes and textures generated, freed, queued
\* and queried, no frame rendered
TableNext ==
    \/ \E vertices_size, indices_size \in 0..MaxMeshAttrib :
            gen_mesh(vertices_size, vertices_size, vertices_size, indices_size)
    \/ \E id \in 0..MeshIds : free_mesh(id)
    \/ \E staging_size \in 0..MaxStaging : gen_texture(staging_size)
    \/ \E id \in 0..(MaxTextures + 1) : queue_texture_for_uploading(id)
    \/ \E id \in 0..(MaxTextures + 1) : call_is_texture_uploaded(id)

TableSpec == Init /\ [][TableNext]_vars

\* The renderer with every operation of its client: meshes, tasks and
\* shutdown beside textures and frames
ClientNext ==
    \/ /\ mesh_calls < MaxClientMeshCalls
       /\ \E vertices_size, indices_size \in 0..MaxMeshAttrib :
            gen_mesh(vertices_size, vertices_size, vertices_size, indices_size)
    \/ /\ mesh_calls < MaxClientMeshCalls
       /\ \E id \in 0..MeshIds : free_mesh(id)
    \/ \E kind \in 0..(TaskKinds - 1) : add_task_to_queue(kind)
    \/ \E id \in 0..(MaxTextures + 1) : call_is_texture_uploaded(id)
    \/ destroy
    \/ \E staging_size \in 0..MaxStaging : gen_texture(staging_size)
    \/ \E id \in 0..(MaxTextures + 1) : queue_texture_for_uploading(id)
    \/ (current_frame < MaxClientFrames /\ RenderStep)
    \/ GpuStep

ClientSpec == Init /\ [][ClientNext]_vars

\* render() keeps being called and runs on; the GPU executes what it is given
FairSpec == Spec /\ WF_vars(RenderStep) /\ WF_vars(GpuStep)

(***************************************************************************)
(* Properties of the allocator driven directly (AllocSpec).                *)
(***************************************************************************)
LiveSet == BagToSet(live)

RECURSIVE BagBytes(_, _)
BagBytes(b, S) ==
    IF S = {} THEN 0
    ELSE LET s == CHOOSE x \in S : TRUE
         IN  s.size * b[s] + BagBytes(b, S \ {s})

\* Sum of the sizes of the live slices
LiveBytes == BagBytes(live, LiveSet)

Overlap(s, r) == s.offset < r.end /\ r.start < s.offset + s.size

\* C1: after any sequence of alloc and free calls (frees of live slices only)
\* available() equals the capacity minus the sum of the sizes of the live
\* slices.
C1_AvailableIsCapacityMinusLive ==
    fatal = "none" => available(ranges) = buffer.size - LiveBytes

\* C2: any two distinct live slices have disjoint byte intervals
\* [offset, offset + size), and each lies inside [0, capacity).
C2_LiveSlicesDisjoint ==
    fatal = "none" =>
        \A s \in LiveSet :
            /\ live[s] = 1
            /\ s.offset + s.size <= buffer.size
            /\ \A t \in LiveSet \ {s} :
                    s.offset + s.size <= t.offset \/ t.offset + t.size <= s.offset

\* C3: the free ranges' sizes sum to at most the region's size, and no byte of
\* a live slice belongs to a free range.
C3_LiveSlicesAreGaps ==
    fatal = "none" =>
        /\ available(ranges) <= buffer.size
        /\ \A s \in LiveSet : \A i \in DOMAIN ranges : ~Overlap(s, ranges[i])

\* C4: after every alloc and every free of a live slice the free list is in
\* ascending order of start, its ranges are non-empty and do not overlap, and
\* no range ends where the next one starts.
C4_FreeListWellFormed ==
    fatal = "none" =>
        \A i \in DOMAIN ranges :
            /\ ranges[i].start < ranges[i].end
            /\ i < Len(ranges) => ranges[i].end < ranges[i + 1].start

\* C9: alloc returns None, leaving the free list as it was, whenever no free
\* range has an extent of at least the rounded size; a slice it returns is at
\* least as large as the request.
C9_AllocRefusesWhenNothingFits ==
    [][(calls' # calls /\ lastOp'.op = "alloc") =>
        LET size == next_size(lastOp'.req, buffer.alignment)
        IN  /\ (\A i \in DOMAIN ranges : ranges[i].end - ranges[i].start < size)
                    => (lastOp'.kind = "none" /\ ranges' = ranges)
            /\ lastOp'.kind = "some" => lastOp'.slice.size >= lastOp'.req]_vars

\* C10: on a fresh region, for every S whose rounded size is at most the
\* capacity, alloc(S) returns a slice, and freeing it at once restores
\* available() to the capacity and the free list to the single range
\* [0, capacity).
C10_RoundTripOnFreshRegion ==
    /\ trip = "refused" => next_size(lastOp.req, buffer.alignment) > buffer.size
    /\ trip = "done" => (ranges = wrap(buffer.size) /\ available(ranges) = buffer.size)

\* C11: on a region of capacity 1024 with alignment 256, alloc(100) returns
\* the slice of size 256 at offset 0; a following alloc(1000) fails, 768
\* bytes being left; freeing the first slice leaves the single range
\* [0, 1024); alloc(1000) then returns the slice of size 1024 at offset 0.
C11_ScenarioSlice == [offset |-> 0, size |-> 256]

C11_Scenario1024 ==
    [][(buffer.size = 1024 /\ buffer.alignment = 256 /\ calls' = calls + 1) =>
        /\ (calls = 0 /\ lastOp'.op = "alloc" /\ lastOp'.req = 100) =>
                (lastOp'.kind = "some" /\ lastOp'.slice = C11_ScenarioSlice)
        /\ (calls = 1 /\ live = SetToBag({C11_ScenarioSlice})
                /\ lastOp'.op = "alloc" /\ lastOp'.req = 1000) =>
                (lastOp'.kind = "none" /\ available(ranges') = 768)
        /\ (calls = 2 /\ lastOp.op = "alloc" /\ lastOp.req = 1000
                /\ lastOp'.op = "free" /\ lastOp'.slice = C11_ScenarioSlice) =>
                ranges' = << [start |-> 0, end |-> 1024] >>
        /\ (calls = 3 /\ lastOp.op = "free" /\ live = EmptyBag
                /\ ranges = << [start |-> 0, end |-> 1024] >>
                /\ lastOp'.op = "alloc" /\ lastOp'.req = 1000) =>
                (lastOp'.kind = "some" /\ lastOp'.slice = [offset |-> 0, size |-> 1024])]_vars

\* The extent of the free range at index i, and the indices of the free
\* ranges a request of the given rounded size fits in
Extent(i) == ranges[i].end - ranges[i].start

Fits(size) == {i \in DOMAIN ranges : Extent(i) >= size}

RECURSIVE ExtentsOver(_)
ExtentsOver(S) ==
    IF S = {} THEN 0
    ELSE LET i == CHOOSE x \in S : TRUE
         IN  RangeSize(ranges[i]) + ExtentsOver(S \ {i})

\* C18: available() is the total of the extents of all free ranges, whatever
\* their number, and alloc returns None exactly on the ground that no single
\* range is large enough; so states exist where available() is at least the
\* rounded request and alloc of that request returns None.
C18_AvailableIgnoresFragmentation ==
    fatal = "none" =>
        /\ available(ranges) = ExtentsOver(DOMAIN ranges) % Word
        /\ (lastOp.op = "alloc" /\ lastOp.kind = "none") =>
                \A i \in DOMAIN ranges :
                    RangeSize(ranges[i]) < next_size(lastOp.req, buffer.alignment)

C18_Witness ==
    /\ fatal = "none"
    /\ lastOp.op = "alloc" /\ lastOp.kind = "none"
    /\ Len(ranges) >= 2
    /\ available(ranges) >= next_size(lastOp.req, buffer.alignment)
    /\ next_size(lastOp.req, buffer.alignment) <= buffer.size
    /\ C4_FreeListWellFormed
    /\ C1_AvailableIsCapacityMinusLive

\* C19: when the first free range that fits has an extent equal to the
\* rounded request, alloc returns that whole range as the slice and removes
\* it from the free list, every other range staying as it was, also when the
\* range is the last or the only one.
C19_ExactFitRemovesRange ==
    [][(calls' # calls /\ lastOp'.op = "alloc") =>
        LET size == next_size(lastOp'.req, buffer.alignment)
        IN  Fits(size) # {} =>
                LET i == CHOOSE x \in Fits(size) : \A y \in Fits(size) : x <= y
                IN  Extent(i) = size =>
                        /\ lastOp'.kind = "some"
                        /\ lastOp'.slice = [offset |-> ranges[i].start, size |-> size]
                        /\ ranges' = Remove(ranges, i)]_vars

\* C20: whenever some free range has an extent of at least the rounded
\* request, alloc returns a slice of the rounded size at the start of the
\* lowest such range; when that range is larger than the request only its
\* start moves, forward by the slice size.
C20_FirstFit ==
    [][(calls' # calls /\ lastOp'.op = "alloc") =>
        LET size == next_size(lastOp'.req, buffer.alignment)
        IN  Fits(size) # {} =>
                LET i == CHOOSE x \in Fits(size) :
                            \A y \in Fits(size) : ranges[x].start <= ranges[y].start
                IN  /\ lastOp'.kind = "some"
                    /\ lastOp'.slice = [offset |-> ranges[i].start, size |-> size]
                    /\ Extent(i) > size =>
                            ranges' = [ranges EXCEPT ![i].start = ranges[i].start + size]]_vars

\* The free list with [s, e) added as the allocator's contract has it:
\* merged with the range that starts at e and with the range that ends at s,
\* where there are such ranges, and otherwise put at its sorted position
Coalesced(rs, s, e) ==
    LET following == {i \in DOMAIN rs : rs[i].start = e}
        preceding == {i \in DOMAIN rs : rs[i].end = s}
        next == CHOOSE i \in following : TRUE
        prev == CHOOSE i \in preceding : TRUE
        position == 1 + Cardinality({i \in DOMAIN rs : rs[i].start < s})
    IN  IF following # {} /\ preceding # {}
        THEN Remove([rs EXCEPT ![prev].end = rs[next].end], next)
        ELSE IF following # {} THEN [rs EXCEPT ![next].start = s]
        ELSE IF preceding # {} THEN [rs EXCEPT ![prev].end = e]
        ELSE InsertAt(rs, position, Range(s, e))

\* C21: free of a live slice [s, e) on a well-formed free list leaves the old
\* list with [s, e) merged into the range that starts at e, into the range
\* that ends at s, into both as one range, or else inserted at its sorted
\* position, also behind every free range; available() grows by e - s.
C21_FreeCoalesces ==
    [][(calls' # calls /\ lastOp'.op = "free" /\ fatal = "none" /\ C4_FreeListWellFormed
            /\ lastOp'.slice.size > 0) =>
        LET slice == lastOp'.slice
        IN  /\ ranges' = Coalesced(ranges, slice.offset, slice.offset + slice.size)
            /\ available(ranges') = available(ranges) + slice.size]_vars

\* C28: for a power-of-two alignment A and every requested size, the slice
\* alloc returns has the smallest multiple of A that is at least the request
\* as its size, which is the request itself when that is a multiple of A;
\* rounding a rounded size changes nothing.
C28_SizeRoundedUp ==
    [][(calls' # calls /\ lastOp'.op = "alloc" /\ lastOp'.kind = "some") =>
        LET A == buffer.alignment
            size == lastOp'.slice.size
        IN  /\ size % A = 0
            /\ size >= lastOp'.req
            /\ size - lastOp'.req < A
            /\ lastOp'.req % A = 0 => size = lastOp'.req
            /\ size = next_size(lastOp'.req, A)
            /\ next_size(size, A) = size]_vars

\* C32: when the region's capacity is a multiple of the alignment A, then
\* after any sequence of alloc and free calls (frees of live slices only)
\* every boundary of a free range and the offset and the size of every
\* slice alloc returned are multiples of A.
C32_EverythingAligned ==
    (fatal = "none" /\ buffer.size % buffer.alignment = 0) =>
        /\ \A i \in DOMAIN ranges :
                ranges[i].start % buffer.alignment = 0 /\ ranges[i].end % buffer.alignment = 0
        /\ \A s \in LiveSet \cup {lastOp.slice} :
                s.offset % buffer.alignment = 0 /\ s.size % buffer.alignment = 0

C32_Witness ==
    /\ fatal = "none"
    /\ buffer.size % buffer.alignment = 0
    /\ lastOp.op = "alloc" /\ lastOp.kind = "some"
    /\ lastOp.req % buffer.alignment # 0
    /\ lastOp.slice.offset > 0
    /\ Len(ranges) >= 2
    /\ BagCardinality(live) >= 2

(***************************************************************************)
(* Properties of the renderer (Spec, FairSpec).                            *)
(***************************************************************************)
Staged(k) == textures_by_id[k].staging # None

\* C5: a texture's staging slice is passed to free only once the GPU has
\* finished the command buffer of the frame that recorded the texture's
\* transition.
C5_StagingFreedAfterGpuDone ==
    [][\A k \in DOMAIN freed :
        freed'[k] # freed[k] => (recorded[k] >= 0 /\ recorded[k] < gpu_done)]_vars

C5_Witness ==
    \E k \in DOMAIN freed :
        freed[k] = 1 /\ recorded[k] >= 0 /\ recorded[k] < gpu_done /\ fatal = "none"

\* C6: with T stages, stage s of frame f > 0 records only after the GPU has
\* signaled (f - 1) * T + s, the value of stage s of frame f - 1, and the
\* counter has reached it; in frame 0 no stage waits.
C6_StageWaitsForPreviousFrame ==
    /\ (pc \in {"record", "signal"} /\ current_frame > 0) =>
            /\ ((current_frame - 1) * TotalStages + stage_index) \in signaled
            /\ timeline >= (current_frame - 1) * TotalStages + stage_index
    /\ (pc = "wait" /\ current_frame = 0 /\ fatal = "none") => ENABLED StageWait

C6_Witness ==
    pc = "record" /\ current_frame > 0 /\ stage_index = TotalStages - 1

\* The texture with index k is queued for the frame about to be rendered,
\* with enough frames left for its upload to be reclaimed
QueuedInTime(k) ==
    /\ k \in DOMAIN textures_by_id
    /\ Staged(k)
    /\ pc = "idle"
    /\ \E j \in DOMAIN optimal_transition_queue : optimal_transition_queue[j] + 1 = k
    /\ current_frame + 2 < MaxFrames

\* C7: a texture generated with staging and queued stays not uploaded until a
\* render() call reads a timeline counter at or above the completion value
\* recorded for it; if the GPU executes what it is given and render() keeps
\* being called, it becomes uploaded; once uploaded it stays uploaded.
C7_UploadLifecycle ==
    /\ [][\A k \in DOMAIN textures_by_id :
            (Staged(k) /\ textures_by_id'[k].staging = None) =>
                /\ pc = "reclaim"
                /\ \E j \in DOMAIN ongoing_optimal_transitions :
                        /\ ongoing_optimal_transitions[j].texture + 1 = k
                        /\ \E f \in 0..recorded[k] :
                                ongoing_optimal_transitions[j].value = (f + 1) * TotalStages
                        /\ ongoing_optimal_transitions[j].value <= timeline]_vars
    /\ [][\A k \in DOMAIN textures_by_id :
            ~Staged(k) => textures_by_id'[k].staging = None]_vars
    /\ \A k \in 1..(MaxTextures + 1) :
            QueuedInTime(k) ~>
                \/ fatal # "none"
                \/ (k \in DOMAIN textures_by_id /\ is_texture_uploaded(k - 1) /\ freed[k] = 1)

C7_Witness ==
    \E k \in DOMAIN textures_by_id :
        /\ is_texture_uploaded(k - 1)
        /\ freed[k] = 1
        /\ pc = "drain"
        /\ timeline >= (recorded[k] + 1) * TotalStages

\* C8: across gen_texture, queue_texture_for_uploading and render calls,
\* queuing a texture more than once included, the staging slice of a texture
\* is passed to free once and never again, and the staging field is cleared
\* in the step that frees it.
C8_StagingFreedOnce ==
    [][/\ \A k \in DOMAIN freed :
            /\ freed'[k] # freed[k] =>
                    /\ freed[k] = 0 /\ freed'[k] = 1
                    /\ Staged(k) /\ textures_by_id'[k].staging = None
            /\ (Staged(k) /\ textures_by_id'[k].staging = None) => freed'[k] = freed[k] + 1
       /\ \A k \in DOMAIN freed :
            (freed'[k] # freed[k] /\ \A j \in DOMAIN freed \ {k} : freed'[j] = freed[j])
                => ranges' = free(ranges, textures_by_id[k].staging[1])]_vars

C8_Witness ==
    \E k \in DOMAIN freed :
        /\ freed[k] = 1
        /\ fatal = "staging buffer is missing"
        /\ \E j \in DOMAIN ongoing_optimal_transitions :
                ongoing_optimal_transitions[j].texture + 1 = k

(***************************************************************************)
(* Properties of the resource tables and of the client's calls (TableSpec, *)
(* ClientSpec).                                                            *)
(***************************************************************************)
\* A gen_mesh call returns in this step
GenMeshReturns ==
    mesh_calls' = mesh_calls + 1 /\ last_mesh'.op = "gen" /\ fatal' = "none"

\* C12: gen_mesh returns the lowest id whose presence bit is unset; so the
\* gen_mesh that follows a gen_mesh returning id and free_mesh(id), with no
\* mesh call in between, returns id again.
C12_LowestUnsetMeshId ==
    [][GenMeshReturns =>
        /\ last_mesh'.id \notin mesh_buffer_ids
        /\ \A lower \in 0..(last_mesh'.id - 1) : lower \in mesh_buffer_ids
        /\ last_mesh'.id \in mesh_buffer_ids'
        /\ (last_mesh.op = "free" /\ last_mesh.regen) => last_mesh'.id = last_mesh.id]_vars

C12_Witness ==
    /\ last_mesh.op = "gen" /\ last_mesh.regen
    /\ last_mesh.id > 0
    /\ mesh_buffer_ids = 0..last_mesh.id
    /\ fatal = "none"

\* C13: is_texture_uploaded(id) is true exactly when the texture's staging
\* field is absent: a texture generated with staging_size > 0 holds a
\* staging slice, not freed, and is not uploaded; one generated with
\* staging_size = 0 has none, no slice being allocated, and is uploaded; the
\* slice stays from creation until the render() call that reclaims it.
C13_UploadedIffNoStaging ==
    /\ [](\A k \in DOMAIN textures_by_id :
            /\ is_texture_uploaded(k - 1) <=> ~(textures_by_id[k].requested /\ freed[k] = 0)
            /\ Staged(k) => /\ textures_by_id[k].staging[1].size > 0
                            /\ textures_by_id[k].staging[1].offset
                                    + textures_by_id[k].staging[1].size <= buffer.size)
    /\ [][\A k \in DOMAIN textures_by_id' :
            /\ k \notin DOMAIN textures_by_id =>
                    /\ textures_by_id'[k].requested => (ranges' # ranges /\ freed'[k] = 0)
                    /\ ~textures_by_id'[k].requested =>
                            (ranges' = ranges /\ textures_by_id'[k].staging = None)
            /\ (k \in DOMAIN textures_by_id /\ Staged(k) /\ textures_by_id'[k].staging = None)
                    => (pc = "reclaim" /\ pc' = "drain")]_vars

C13_Witness ==
    /\ Len(textures_by_id) >= 2
    /\ textures_by_id[2].requested
    /\ ~is_texture_uploaded(1)
    /\ recorded[2] >= 0
    /\ pc = "record"
    /\ fatal = "none"

\* The render() call in progress returns in this step
RenderReturns == pc = "present" /\ pc' = "idle"

\* The number of command buffers render() calls have submitted
Submitted == gpu_done + Cardinality({k \in DOMAIN gpu_queue : gpu_queue[k].kind = "commands"})

\* C14: every completed render() call increases current_frame by exactly
\* one and nothing else changes it; after k completed render() calls it is k.
C14_FrameCounter ==
    /\ [][/\ RenderReturns => current_frame' = current_frame + 1
          /\ current_frame' # current_frame => RenderReturns]_vars
    /\ [](current_frame = IF pc = "present" THEN Submitted - 1 ELSE Submitted)

C14_Witness ==
    /\ current_frame = 2
    /\ pc = "idle"
    /\ mesh_calls > 0
    /\ Len(textures_by_id) > 1
    /\ TaskCount(batches_by_task_type, 1) > 0
    /\ fatal = "none"

IsPrefix(s, t) == Len(s) <= Len(t) /\ SubSeq(t, 1, Len(s)) = s

\* C15: a task added between render call k - 1 and render call k is in its
\* kind's batch during the stage pass of render call k and of no other, and
\* every batch is empty when render() returns.
C15_TasksLiveOneFrame ==
    /\ [](\A k \in DOMAIN batches_by_task_type :
            \A j \in DOMAIN batches_by_task_type[k] :
                /\ batches_by_task_type[k][j].added = current_frame
                /\ batches_by_task_type[k][j].kind = k - 1)
    /\ [][IF RenderReturns
          THEN \A k \in DOMAIN batches_by_task_type : batches_by_task_type'[k] = << >>
          ELSE \A k \in DOMAIN batches_by_task_type :
                    IsPrefix(batches_by_task_type[k], batches_by_task_type'[k])]_vars

C15_Witness ==
    /\ pc = "record"
    /\ current_frame = 1
    /\ TaskCount(batches_by_task_type, 1) = MaxTasks
    /\ fatal = "none"

\* What the renderer holds beside the panic that ended it
TablesAndQueues ==
    <<ranges, mesh_buffer_ids, mesh_buffers_by_id, textures_by_id, optimal_transition_queue,
      ongoing_optimal_transitions, batches_by_task_type, current_frame>>

\* C16: free_mesh(id) for an id without mesh entry (never generated, or
\* freed already) aborts before any allocator free and before the bitset is
\* touched, so no mesh's slices are freed twice; queue_texture_for_uploading
\* and is_texture_uploaded for an id without texture entry abort and leave
\* the transition queue as it was.
C16_UnknownIdIsFatal ==
    [][/\ (last_mesh' # last_mesh /\ last_mesh'.op \in {"free", "free_unknown"}) =>
            IF last_mesh'.id \in DOMAIN mesh_buffers_by_id
            THEN /\ fatal' = "none"
                 /\ last_mesh'.id \notin DOMAIN mesh_buffers_by_id'
                 /\ last_mesh'.id \notin mesh_buffer_ids'
            ELSE /\ fatal' = "couldn't find mesh"
                 /\ TablesAndQueues' = TablesAndQueues
       /\ (fatal = "none" /\ fatal' \in {"couldn't find mesh", "missing texture"}) =>
            TablesAndQueues' = TablesAndQueues
       /\ optimal_transition_queue' # optimal_transition_queue =>
            /\ fatal' = "none"
            /\ \A j \in DOMAIN optimal_transition_queue' :
                    optimal_transition_queue'[j] + 1 \in DOMAIN textures_by_id]_vars

C16_Witness ==
    /\ fatal = "couldn't find mesh"
    /\ last_mesh = [op |-> "free_unknown", id |-> ID_TEST_TRIANGLE, regen |-> FALSE]
    /\ ID_TEST_TRIANGLE \notin mesh_buffer_ids
    /\ ranges = wrap(buffer.size)

\* C17: over Renderer::destroy, Pipeline::destroy included, the buffer and
\* the memory of each Device Memory Region are released exactly once, however
\* many handles to the region there are.
C17_RegionsReleasedOnce ==
    /\ \A r \in RegionNames : released[r] <= 1
    /\ pc = "destroyed" => \A r \in RegionNames : released[r] = 1

(***************************************************************************)
(* Properties of one render() call (Spec, FairSpec, ClientSpec).           *)
(***************************************************************************)
\* process_stages runs its reclamation in this step
Reclaims == pc = "reclaim" /\ pc' = "drain"

\* The pending records, by index, that a counter value satisfies
Satisfied(counter) ==
    {j \in DOMAIN ongoing_optimal_transitions : ongoing_optimal_transitions[j].value <= counter}

RECURSIVE Retained(_, _)
Retained(pending, counter) ==
    IF pending = << >> THEN << >>
    ELSE IF Head(pending).value > counter
    THEN << Head(pending) >> \o Retained(Tail(pending), counter)
    ELSE Retained(Tail(pending), counter)

\* C22: in one render() call a pending transition (texture, v) is removed
\* and its staging slice freed exactly if v is at most the timeline counter
\* value read in that call; the records with a greater v stay as they are;
\* with no transition pending the counter is not read.
C22_ReclaimedIffCounterReached ==
    [][Reclaims =>
        IF ongoing_optimal_transitions = << >>
        THEN /\ current_timeline_counter' = None
             /\ UNCHANGED <<ongoing_optimal_transitions, textures_by_id, freed, ranges>>
        ELSE /\ current_timeline_counter' = Some(timeline)
             /\ \A j \in DOMAIN ongoing_optimal_transitions \ Satisfied(timeline) :
                    \E i \in DOMAIN ongoing_optimal_transitions' :
                        ongoing_optimal_transitions'[i] = ongoing_optimal_transitions[j]
             /\ \A k \in DOMAIN freed :
                    freed'[k] # freed[k] =>
                        \E j \in Satisfied(timeline) : ongoing_optimal_transitions[j].texture + 1 = k
             /\ fatal' = "none" =>
                    /\ ongoing_optimal_transitions' = Retained(ongoing_optimal_transitions, timeline)
                    /\ \A j \in Satisfied(timeline) :
                        LET k == ongoing_optimal_transitions[j].texture + 1
                        IN  /\ freed'[k] = freed[k] + 1
                            /\ Staged(k) /\ textures_by_id'[k].staging = None
                    /\ \A k \in DOMAIN textures_by_id :
                        (\A j \in Satisfied(timeline) : ongoing_optimal_transitions[j].texture + 1 # k)
                            => textures_by_id'[k] = textures_by_id[k]]_vars

C22_Witness ==
    /\ pc = "drain"
    /\ fatal = "none"
    /\ current_timeline_counter # None
    /\ ongoing_optimal_transitions # << >>
    /\ \A j \in DOMAIN ongoing_optimal_transitions :
            ongoing_optimal_transitions[j].value > current_timeline_counter[1]
    /\ \E k \in DOMAIN freed :
            /\ freed[k] = 1
            /\ signal_value_for(current_frame - 1, 0) <= current_timeline_counter[1]
            /\ recorded[k] = current_frame - 2

\* The timeline values present_queue holds for signaling, in queue order
RECURSIVE SignalValues(_)
SignalValues(queue) ==
    IF queue = << >> THEN << >>
    ELSE IF Head(queue).kind = "signal"
    THEN << Head(queue).value >> \o SignalValues(Tail(queue))
    ELSE SignalValues(Tail(queue))

\* C23: signal_value_for(frame, stage) is frame * T + stage, strictly
\* increasing in recording order for stages below T; so the values enqueued
\* for signaling form a strictly increasing sequence, each greater than the
\* counter's initial value 0 and than every value signaled before it, and
\* the counter never decreases.
C23_SignalValuesIncrease ==
    /\ [](LET values == SignalValues(gpu_queue)
          IN  \A j \in DOMAIN values :
                /\ values[j] > 0
                /\ \A v \in signaled : values[j] > v
                /\ \A i \in 1..(j - 1) : values[i] < values[j]
                /\ \E frame \in 0..MaxFrames : \E stage \in 0..(TotalStages - 1) :
                        /\ values[j] = frame * TotalStages + stage
                        /\ values[j] = signal_value_for(frame, stage))
    /\ [][timeline' >= timeline]_vars

\* C24: the completion values of the pending list never decrease along the
\* list; so the records the observed counter satisfies are a prefix of the
\* list, one render() call reclaims a prefix, and the records it retains
\* keep their order.
C24_PendingValuesOrdered ==
    /\ [](\A i, j \in DOMAIN ongoing_optimal_transitions :
            i < j => ongoing_optimal_transitions[i].value <= ongoing_optimal_transitions[j].value)
    /\ [][Reclaims =>
            \E n \in 0..Len(ongoing_optimal_transitions) :
                /\ Satisfied(timeline) = 1..n
                /\ fatal' = "none" =>
                        ongoing_optimal_transitions' =
                            SubSeq(ongoing_optimal_transitions, n + 1,
                                   Len(ongoing_optimal_transitions))]_vars

C24_Witness ==
    /\ pc = "drain"
    /\ fatal = "none"
    /\ current_timeline_counter # None
    /\ Len(ongoing_optimal_transitions) = 1
    /\ ongoing_optimal_transitions[1].value = signal_value_for(current_frame, 0)
    /\ ongoing_optimal_transitions[1].value > current_timeline_counter[1]
    /\ \E k \in DOMAIN textures_by_id : freed[k] = 1 /\ ~Staged(k)

\* The steps of one render() call, each with the step that follows it; the
\* pass over the stages goes on from "signal" while stages are left
StepsInOrder ==
    {<<"idle", "reclaim">>, <<"reclaim", "drain">>, <<"drain", "wait">>, <<"wait", "record">>,
     <<"record", "signal">>, <<"signal", "wait">>, <<"signal", "submit">>,
     <<"submit", "present">>, <<"present", "idle">>}

\* C25: in every render() call reclamation comes first, then the recording
\* of the queued transitions, which empties the queue, then every stage in
\* ascending index, each waiting, recording and signaling before the next
\* starts, then submission, then present with the increment of the frame
\* counter and the clearing of the batches; a render() call starts only
\* when the one before it has returned.
C25_StepsOfRenderInOrder ==
    [][/\ (pc' # pc /\ pc' # "destroyed") =>
            /\ <<pc, pc'>> \in StepsInOrder
            /\ pc' = "wait" =>
                    stage_index' = (IF pc = "drain" THEN 0 ELSE stage_index + 1)
                        /\ stage_index' < TotalStages
            /\ pc' \in {"record", "signal"} => stage_index' = stage_index
            /\ pc' = "submit" => stage_index' = TotalStages
       /\ ((\E k \in DOMAIN freed : freed'[k] # freed[k])
                \/ Len(ongoing_optimal_transitions') < Len(ongoing_optimal_transitions))
            => (pc = "reclaim" /\ pc' \in {"drain", "reclaim"})
       /\ (optimal_transition_queue' # optimal_transition_queue
                /\ Len(optimal_transition_queue') <= Len(optimal_transition_queue))
            => (pc = "drain" /\ pc' = "wait" /\ optimal_transition_queue' = << >>)
       /\ Len(ongoing_optimal_transitions') > Len(ongoing_optimal_transitions)
            => (pc = "drain" /\ pc' = "wait")
       /\ Len(gpu_queue') > Len(gpu_queue) =>
            LET op == gpu_queue'[Len(gpu_queue')]
            IN  IF op.kind = "signal"
                THEN /\ pc = "signal"
                     /\ op.value = signal_value_for(current_frame, stage_index)
                ELSE /\ pc = "submit" /\ pc' = "present"
                     /\ op.value = current_frame
                     /\ stage_index = TotalStages
       /\ (pc = "signal" /\ pc' # pc) => Len(gpu_queue') > Len(gpu_queue)
       /\ (current_frame' # current_frame
                \/ \E k \in DOMAIN batches_by_task_type :
                        Len(batches_by_task_type'[k]) < Len(batches_by_task_type[k]))
            => (pc = "present" /\ pc' = "idle")
       /\ (pc = "present" /\ pc' = "idle") =>
            /\ current_frame' = current_frame + 1
            /\ Submitted = current_frame + 1
            /\ \A k \in DOMAIN batches_by_task_type : batches_by_task_type'[k] = << >>]_vars

C25_Witness ==
    /\ pc = "present"
    /\ current_frame = 1
    /\ stage_index = TotalStages
    /\ TaskCount(batches_by_task_type, 1) > 0
    /\ optimal_transition_queue = << >>
    /\ Len(ongoing_optimal_transitions) = 2
    /\ fatal = "none"

\* C26: render() never blocks forever: the value a stage waits on in frame
\* f was enqueued for signaling during frame f - 1, so, the GPU executing
\* what it is given, every wait_for_previous_frame returns and every
\* render() call returns.
C26_RenderTerminates ==
    /\ []((pc = "wait" /\ current_frame > 0) =>
            LET value == signal_value_for(current_frame - 1, stage_index)
            IN  value \in signaled \cup QueuedValues("signal"))
    /\ (pc = "wait") ~> (pc = "record" \/ fatal # "none")
    /\ (pc # "idle") ~> (pc = "idle" \/ fatal # "none")

C26_Witness ==
    /\ pc = "idle"
    /\ current_frame >= 2
    /\ timeline = signal_value_for(current_frame - 1, TotalStages - 1)
    /\ gpu_queue = << >>
    /\ fatal = "none"

\* A render() call is in progress
Rendering == pc \in {"reclaim", "drain", "wait", "record", "signal", "submit", "present"}

\* C29: a transition recorded in the render() call of frame f gets the
\* completion value signal_value_for(f + 1, 0), above every value the
\* counter shows during that call; reclamation coming before the queue is
\* drained, no staging slice is reclaimed in the call that records its
\* transition.
C29_NotReclaimedWhereRecorded ==
    /\ [](Rendering => timeline < signal_value_for(current_frame + 1, 0))
    /\ [][/\ Len(ongoing_optimal_transitions') > Len(ongoing_optimal_transitions) =>
                \A j \in (Len(ongoing_optimal_transitions) + 1)..Len(ongoing_optimal_transitions') :
                    /\ ongoing_optimal_transitions'[j].value = signal_value_for(current_frame + 1, 0)
                    /\ ongoing_optimal_transitions'[j].value > timeline
                    /\ recorded'[ongoing_optimal_transitions'[j].texture + 1] = current_frame
          /\ \A k \in DOMAIN freed :
                freed'[k] # freed[k] => (recorded[k] >= 0 /\ recorded[k] < current_frame)
          /\ \A k \in DOMAIN textures_by_id :
                (Rendering /\ recorded[k] = current_frame /\ Staged(k)) =>
                    (k \in DOMAIN textures_by_id' /\ textures_by_id'[k].staging # None)]_vars

C29_Witness ==
    /\ pc = "present"
    /\ fatal = "none"
    /\ timeline = signal_value_for(current_frame, TotalStages - 1)
    /\ \E j \in DOMAIN ongoing_optimal_transitions :
            /\ ongoing_optimal_transitions[j].value = signal_value_for(current_frame + 1, 0)
            /\ Staged(ongoing_optimal_transitions[j].texture + 1)
            /\ recorded[ongoing_optimal_transitions[j].texture + 1] = current_frame

\* The satisfied pending records, by index, that find their texture without
\* staging slice: it had none when the call began, or an earlier satisfied
\* record of the same texture took it
Redundant(counter) ==
    {j \in Satisfied(counter) :
        LET k == ongoing_optimal_transitions[j].texture + 1
        IN  \/ ~Staged(k)
            \/ \E i \in Satisfied(counter) :
                    i < j /\ ongoing_optimal_transitions[i].texture + 1 = k}

\* C30: a texture queued without staging slice (generated with staging_size
\* 0, or uploaded already) or queued twice before it is reclaimed causes no
\* second free and no silent change: the render() call that reaches the
\* redundant pending record panics with the staging-missing error.
C30_RedundantRecordIsFatal ==
    /\ [](\A k \in DOMAIN freed :
            /\ freed[k] <= 1
            /\ freed[k] = 1 => (textures_by_id[k].requested /\ ~Staged(k)))
    /\ [][Reclaims =>
            /\ (Redundant(timeline) # {}) <=> (fatal' = "staging buffer is missing")
            /\ fatal' \in {"none", "staging buffer is missing"}
            /\ \A k \in DOMAIN freed :
                    /\ ~Staged(k) => (freed'[k] = freed[k] /\ textures_by_id'[k] = textures_by_id[k])
                    /\ freed'[k] <= freed[k] + 1]_vars

C30_Witness ==
    /\ fatal = "staging buffer is missing"
    /\ current_timeline_counter # None
    /\ \E j \in DOMAIN ongoing_optimal_transitions :
        LET k == ongoing_optimal_transitions[j].texture + 1
        IN  /\ ongoing_optimal_transitions[j].value <= current_timeline_counter[1]
            /\ ~textures_by_id[k].requested
            /\ freed[k] = 0

(***************************************************************************)
(* Further properties of the resource tables (TableSpec).                  *)
(***************************************************************************)
\* The free list after one free call for each slice of a list, in order
RECURSIVE FreeEach(_, _)
FreeEach(rs, slices) ==
    IF slices = << >> THEN rs ELSE FreeEach(free(rs, Head(slices)), Tail(slices))

RECURSIVE TotalSize(_)
TotalSize(slices) ==
    IF slices = << >> THEN 0 ELSE Head(slices).size + TotalSize(Tail(slices))

\* The slices of a mesh that have backing memory
Backed(mesh) ==
    SelectSeq(<<mesh.vertices, mesh.normals, mesh.tex_coords, mesh.indices>>,
              LAMBDA slice : slice.size > 0)

\* C27: free_mesh(id) on an existing mesh removes its entry, frees each of
\* its four slices of size > 0 once and no empty slice, and clears the
\* presence bit of id and no other; the entries of the other meshes stay,
\* and available() grows by the total size of the freed slices.
C27_FreeMeshFreesBackedSlices ==
    [][(last_mesh' # last_mesh /\ last_mesh'.op = "free") =>
        LET id == last_mesh'.id
            mesh == mesh_buffers_by_id[id]
        IN  /\ id \in DOMAIN mesh_buffers_by_id
            /\ DOMAIN mesh_buffers_by_id' = DOMAIN mesh_buffers_by_id \ {id}
            /\ \A other \in DOMAIN mesh_buffers_by_id' :
                    mesh_buffers_by_id'[other] = mesh_buffers_by_id[other]
            /\ id \in mesh_buffer_ids
            /\ mesh_buffer_ids' = mesh_buffer_ids \ {id}
            /\ ranges' = FreeEach(ranges, Backed(mesh))
            /\ \A i \in DOMAIN ranges' : ranges'[i].start < ranges'[i].end
            /\ available(ranges') = available(ranges) + TotalSize(Backed(mesh))
            /\ fatal' = "none"]_vars

C27_Witness ==
    /\ last_mesh.op = "free"
    /\ last_mesh.id = ID_TEST_TRIANGLE
    /\ fatal = "none"
    /\ mesh_buffer_ids = {1}
    /\ \E slice \in {mesh_buffers_by_id[1].vertices, mesh_buffers_by_id[1].indices} :
            slice.size > 0
    /\ available(ranges) = available(TriangleRanges) + 3 * TriangleAttribBytes
                             - TotalSize(Backed(mesh_buffers_by_id[1]))

\* C31: after gen_mesh and free_mesh calls that did not abort, the presence
\* bit of an id is set exactly when the mesh table has an entry for the id;
\* so, id 0 being held by the test triangle at the start, gen_mesh never
\* returns an id that has an entry.
C31_BitsMatchEntries ==
    /\ [](fatal = "none" => mesh_buffer_ids = DOMAIN mesh_buffers_by_id)
    /\ [][GenMeshReturns =>
            /\ last_mesh'.id \notin DOMAIN mesh_buffers_by_id
            /\ DOMAIN mesh_buffers_by_id' = DOMAIN mesh_buffers_by_id \cup {last_mesh'.id}
            /\ \A other \in DOMAIN mesh_buffers_by_id :
                    mesh_buffers_by_id'[other] = mesh_buffers_by_id[other]]_vars

C31_Witness ==
    /\ fatal = "none"
    /\ last_mesh.op = "gen"
    /\ last_mesh.id = ID_TEST_TRIANGLE
    /\ mesh_buffers_by_id[ID_TEST_TRIANGLE] # test_triangle
    /\ mesh_buffer_ids = {ID_TEST_TRIANGLE, 1}
    /\ DOMAIN mesh_buffers_by_id = {ID_TEST_TRIANGLE, 1}

=============================================================================
